---- MODULE Spec2Model ----
(***************************************************************************)
(* A model of the gdal-server upload -> dispatch -> toolkit call ->       *)
(* cleanup pipeline.  Two revisions of the /process-geospatial handler    *)
(* are modelled: the one of src/server.js (lines 1-613) and the one of    *)
(* src/unnamed/part_000 (lines 1-266).  The geospatial toolkit is an      *)
(* input: a dataset is a value the toolkit's open call returns for the    *)
(* bytes stored at a scratch path.                                        *)
(***************************************************************************)
EXTENDS Integers, Sequences, FiniteSets, TLC

VARIABLES rev, clock, disk, req, call

vars == <<rev, clock, disk, req, call>>

(***************************************************************************)
(* Bounds of the model.                                                    *)
(***************************************************************************)
MaxLayers == 2        \* layers per dataset
MaxSmall == 2         \* features of a small layer
MaxPrefix == 1        \* features of a large layer that are not plain
MaxClock == 2         \* milliseconds Date.now() advances over
MaxRequests == 2      \* requests in flight in the concurrent specification
MaxPortLen == 5       \* characters of the PORT variable

(***************************************************************************)
(* Program constants.                                                      *)
(***************************************************************************)
maxFeatures == 10000

Range(s) == {s[i] : i \in 1..Len(s)}

(***************************************************************************)
(* The toolkit's data.                                                     *)
(***************************************************************************)
Null == [type |-> "null"]

\* Spatial reference of a layer: absent, geographic WGS84, a projected
\* system in metres, or one no transformation to EPSG:4326 can be built from.
SrsKinds == {"none", "wgs84", "utm", "local"}

\* What reading one feature does: "plain" reads and transforms, "nogeom" has
\* no geometry, "corrupt" throws in getGeometry, "untransformable" throws in
\* geometry.transform.
FeatureKinds == {"plain", "nogeom", "corrupt", "untransformable"}

LayerNames == {"roads", "Roads", "rivers"}

\* The coordinates the features of a layer are stored in.
NativePoint(srs) ==
    IF srs = "wgs84" THEN [type |-> "Point", x |-> 10, y |-> 50]
                     ELSE [type |-> "Point", x |-> 500000, y |-> 4000000]

Feature(i, kind, srs) == [fid |-> i, kind |-> kind, point |-> NativePoint(srs)]

\* A layer of n features: the first Len(pat) have the kinds of pat, the
\* others are plain.  readable is FALSE for a layer whose access through the
\* toolkit (layers.get, name, features.count) throws.
Layer(name, srs, n, pat) ==
    [name |-> name, srs |-> srs, readable |-> TRUE,
     features |-> [i \in 1..n |->
                      Feature(i, IF i <= Len(pat) THEN pat[i] ELSE "plain", srs)]]

BrokenLayer(name, srs, n, pat) == [Layer(name, srs, n, pat) EXCEPT !.readable = FALSE]

\* layer.extent: the box around the features, none for an empty layer.
LayerExtent(layer) ==
    IF Len(layer.features) = 0 THEN Null
    ELSE LET p == NativePoint(layer.srs)
         IN  [minX |-> p.x, minY |-> p.y, maxX |-> p.x, maxY |-> p.y]

InWGS84(g) == g.type = "Point" => (g.x >= -180 /\ g.x <= 180 /\ g.y >= -90 /\ g.y <= 90)

\* gdal.CoordinateTransformation(srs, EPSG:4326) applied to a point.
Transform(srs, p) ==
    IF srs = "wgs84" THEN p
                     ELSE [type |-> "Point", x |-> p.x \div 100000, y |-> p.y \div 100000]

(***************************************************************************)
(* Error messages are sequences of tokens: the fixed text of the template  *)
(* and the values interpolated into it.                                    *)
(***************************************************************************)
Join(names) ==
    IF Len(names) = 0 THEN << >>
    ELSE [i \in 1..(2 * Len(names) - 1) |->
             IF i % 2 = 1 THEN names[(i + 1) \div 2] ELSE ", "]

NoValue == [kind |-> "none"]

NoCall == [fn |-> "none"]

\* What a function call did: it returned value, or threw message.  opened
\* counts its toolkit open calls, ctBuilt the coordinate transformations it
\* constructed (or tried to), txCalls its geometry.transform calls.
\* handles counts the datasets the call opened and has not closed when it
\* ends; probeHandles counts those among them that listZipContents opened.
Returned(v, ct, tx) ==
    [threw |-> FALSE, message |-> << >>, value |-> v,
     opened |-> 1, ctBuilt |-> ct, txCalls |-> tx,
     handles |-> 1, probeHandles |-> 0, residue |-> FALSE]

Threw(msg) ==
    [threw |-> TRUE, message |-> msg, value |-> NoValue,
     opened |-> 1, ctBuilt |-> 0, txCalls |-> 0,
     handles |-> 1, probeHandles |-> 0, residue |-> FALSE]

\* The handler's own gdal.open threw: there is no dataset to close.
OpenThrew(msg) == [Threw(msg) EXCEPT !.handles = 0]

\* dataset.close() left undone.
CloseSkipped(handles) == handles

\* dataset.close(): one handle fewer is open.
Close(handles) == handles - 1

\* An outcome reached after the handler closed its dataset.
Closed(out) == [out EXCEPT !.handles = Close(@)]

\* The result of gdal.open / gdal.openAsync: a dataset, or an exception.
\* A dataset without layers is a raster: it has a raster size and a spatial
\* reference of its own; a vector dataset has neither.
OpenFailed ==
    [ok |-> FALSE, layers |-> << >>, driver |-> Null, rasterSize |-> Null, srs |-> Null]
Opened(layers) ==
    [ok |-> TRUE, layers |-> layers,
     driver |-> [description |-> IF Len(layers) = 0 THEN "GTiff" ELSE "ESRI Shapefile"],
     rasterSize |-> IF Len(layers) = 0 THEN [x |-> 256, y |-> 256] ELSE Null,
     srs |-> IF Len(layers) = 0 THEN [wkt |-> "GEOGCS[WGS 84]"] ELSE Null]

(***************************************************************************)
(* extractLayerFeatures of src/server.js.                                  *)
(***************************************************************************)
\* The first layer whose name is exactly layerName, 0 when there is none.
FindLayer(layers, layerName) ==
    IF \E i \in 1..Len(layers) : layers[i].name = layerName
    THEN CHOOSE i \in 1..Len(layers) :
            /\ layers[i].name = layerName
            /\ \A j \in 1..(i - 1) : layers[j].name # layerName
    ELSE 0

LayerNotFoundMessage(layers, layerName) ==
    <<"Layer \"", layerName, "\" not found. Available layers: ">>
        \o Join([i \in 1..Len(layers) |-> layers[i].name])

\* Whether the set-up of lines 420-432 leaves a transformation object.
CoordTransformBuilt(transformCoords, srs) ==
    transformCoords /\ srs # "none" /\ srs # "local"

\* The constructor is called whenever the guard of line 422 passes.
CoordTransformTried(transformCoords, srs) ==
    transformCoords /\ srs # "none"

\* The guard with the comparison off by one.
CapReachedOffByOne(featureCount) == featureCount > maxFeatures

\* The guard that opens the forEachAsync callback (line 472).
CapReached(featureCount) == featureCount >= maxFeatures

\* extraction_summary.truncated (line 534).
Truncated(featureCount) == featureCount >= maxFeatures

\* A callback in which a failed transform is not caught either.
FeatureThrowsOnTransform(f) == f.kind \in {"corrupt", "untransformable"}

\* The callback throws out of its outer try (caught at line 521).
FeatureThrows(f) == f.kind = "corrupt"

\* Lines 485-501: the geometry of one feature as it is put in the response.
FeatureGeometry(f, coordTransform, srs) ==
    IF f.kind = "nogeom" THEN Null
    ELSE IF coordTransform /\ f.kind # "untransformable" THEN Transform(srs, f.point)
    ELSE f.point

FeatureData(f, coordTransform, srs) ==
    [fid |-> f.fid, geometry |-> FeatureGeometry(f, coordTransform, srs)]

\* The number of features the loop pushes out of nOk features that do not
\* throw: it pushes one per callback until the guard of line 472 holds.
PushedCount(nOk) ==
    LET stops == {k \in 0..nOk : CapReached(k)}
    IN  IF stops = {} THEN nOk
        ELSE CHOOSE k \in stops : \A j \in stops : k <= j

\* The counter featureCount after the loop (lines 468 and 514).
FeatureCount(layer) ==
    PushedCount(Len(SelectSeq(layer.features, LAMBDA f : ~FeatureThrows(f))))

\* A loop that pushes a feature before it reads it, so that a feature whose
\* callback throws stays in the array.
ExtractFeaturesKeepsFailed(layer, coordTransform) ==
    LET taken == SubSeq(layer.features, 1, PushedCount(Len(layer.features)))
    IN  [i \in 1..Len(taken) |-> FeatureData(taken[i], coordTransform, layer.srs)]

ExtractFeatures(layer, coordTransform) ==
    LET ok == SelectSeq(layer.features, LAMBDA f : ~FeatureThrows(f))
        taken == SubSeq(ok, 1, PushedCount(Len(ok)))
    IN  [i \in 1..Len(taken) |-> FeatureData(taken[i], coordTransform, layer.srs)]

\* geometry.transform is called for every pushed feature with a geometry.
TransformCalls(layer, coordTransform) ==
    LET ok == SelectSeq(layer.features, LAMBDA f : ~FeatureThrows(f))
        taken == SubSeq(ok, 1, PushedCount(Len(ok)))
    IN  IF coordTransform
        THEN Len(SelectSeq(taken, LAMBDA f : f.kind # "nogeom"))
        ELSE 0

LayerInfo(layer, layerName, transformCoords) ==
    LET coordTransform == CoordTransformBuilt(transformCoords, layer.srs)
        features == ExtractFeatures(layer, coordTransform)
        featureCount == FeatureCount(layer)
    IN  [kind |-> "layer",
         name |-> layerName,
         feature_count |-> featureCount,
         spatial_reference |->
             [original |-> IF layer.srs = "none" THEN "Unknown" ELSE layer.srs,
              transformed |-> IF transformCoords THEN "EPSG:4326 (WGS84)" ELSE "null"],
         coordinate_transformation_applied |-> coordTransform,
         features |-> features,
         extraction_summary |->
             [total_extracted |-> featureCount,
              coordinate_transformation_applied |-> coordTransform,
              max_feature_limit |-> maxFeatures,
              truncated |-> Truncated(featureCount)]]

extractLayerFeatures(result, layerName, transformCoords) ==
    IF ~result.ok
    THEN OpenThrew(<<"Failed to extract layer: ", "open failed">>)
    ELSE LET i == FindLayer(result.layers, layerName)
         IN  IF i = 0
             THEN Threw(<<"Failed to extract layer: ">>
                            \o LayerNotFoundMessage(result.layers, layerName))
             ELSE LET layer == result.layers[i]
                      ct == CoordTransformBuilt(transformCoords, layer.srs)
                  IN  Returned(LayerInfo(layer, layerName, transformCoords),
                               IF CoordTransformTried(transformCoords, layer.srs)
                               THEN 1 ELSE 0,
                               TransformCalls(layer, ct))

(***************************************************************************)
(* File names.  A name is the sequence of its parts, the stem and then     *)
(* each extension with its dot: "UMN.gdb.zip" is <<"UMN", ".gdb", ".zip">>.*)
(***************************************************************************)
toLowerCase(part) ==
    CASE part = "UMN" -> "umn"
      [] part = ".GDB" -> ".gdb"
      [] part = ".ZIP" -> ".zip"
      [] OTHER -> part

toUpperCase(part) ==
    CASE part = "umn" -> "UMN"
      [] part = "data" -> "DATA"
      [] part = ".gdb" -> ".GDB"
      [] part = ".zip" -> ".ZIP"
      [] part = ".shp" -> ".SHP"
      [] OTHER -> part

NameToLowerCase(name) == [i \in 1..Len(name) |-> toLowerCase(name[i])]

\* name.endsWith(ext), for ext one extension.
endsWith(name, ext) == Len(name) > 0 /\ name[Len(name)] = ext

\* path.basename(name, ext): the suffix is dropped only when it matches exactly.
basename(name, ext) ==
    IF Len(name) > 1 /\ name[Len(name)] = ext THEN SubSeq(name, 1, Len(name) - 1)
    ELSE name

OriginalNames ==
    {<<"data", ".shp">>, <<"UMN", ".gdb", ".zip">>, <<"umn", ".gdb", ".ZIP">>}

(***************************************************************************)
(* Scratch storage.  disk maps each existing scratch path to the content   *)
(* stored there.                                                           *)
(***************************************************************************)
\* The revisions of the service in the source: "server" is the first one of
\* src/server.js, "server2" the one that follows it in the same file,
\* "part000" and "part001" the first ones of the files of those names.
Revisions == {"server", "server2", "part000", "part001"}

DiskStorageRevisions == {"server", "server2"}

NoPath == [dir |-> "none", stamp |-> 0, name |-> << >>]

\* multer.diskStorage of src/server.js: uploads/<Date.now()>-<originalname>.
DiskStorageFilename(now, originalname) ==
    [dir |-> "uploads", stamp |-> now, name |-> originalname]

\* multer({dest: '/tmp/'}) of part_000: a random name, one per upload.
DestFilename(r) == [dir |-> "/tmp", stamp |-> r, name |-> << >>]

ScratchPath(rv, now, r, originalname) ==
    IF rv \in DiskStorageRevisions THEN DiskStorageFilename(now, originalname)
                                    ELSE DestFilename(r)

\* The sequences of distinct layer names of at most MaxLayers layers.
NameSeqs ==
    UNION {{s \in [1..k -> LayerNames] : \A i, j \in 1..k : i # j => s[i] # s[j]}
           : k \in 0..MaxLayers}

DatasetLayers(names, srs) ==
    [i \in 1..Len(names) |-> Layer(names[i], srs, 1, << >>)]

Datasets == {DatasetLayers(names, srs) : names \in NameSeqs, srs \in {"none", "utm"}}

\* The entry of an archive that holds the dataset: << >> is the archive root.
Entries == {<< >>, <<"UMN", ".gdb">>, <<"umn", ".gdb">>}

\* What an uploaded file holds: a dataset the toolkit reads, an archive with
\* the dataset at one entry, or bytes the toolkit cannot read.
FileContents ==
    [archive : {FALSE}, entry : {<< >>}, readable : {TRUE}, layers : Datasets]
    \cup [archive : {FALSE}, entry : {<< >>}, readable : {FALSE}, layers : {<< >>}]
    \cup [archive : {TRUE}, entry : Entries, readable : {TRUE}, layers : Datasets]

NoContent == [archive |-> FALSE, entry |-> << >>, readable |-> FALSE, layers |-> << >>]

Store(d, path, content) ==
    [q \in (DOMAIN d) \cup {path} |-> IF q = path THEN content ELSE d[q]]

Unlink(d, path) == [q \in (DOMAIN d) \ {path} |-> d[q]]

(***************************************************************************)
(* The toolkit's open call on a path, plain or /vsizip/<file>[/<inner>].   *)
(***************************************************************************)
PlainPath(file) == [vsizip |-> FALSE, file |-> file, inner |-> << >>]
VsiZipPath(file, inner) == [vsizip |-> TRUE, file |-> file, inner |-> inner]

ToolkitOpen(d, gdalPath) ==
    IF gdalPath.file \notin DOMAIN d THEN OpenFailed
    ELSE LET c == d[gdalPath.file]
         IN  IF ~c.readable THEN OpenFailed
             ELSE IF gdalPath.vsizip
                  THEN IF c.archive /\ c.entry = gdalPath.inner
                       THEN Opened(c.layers) ELSE OpenFailed
                  ELSE IF c.archive THEN OpenFailed ELSE Opened(c.layers)

(***************************************************************************)
(* Path resolution.                                                        *)
(***************************************************************************)
\* src/server.js lines 56-62.
ServerGdalPath(filePath, originalname) ==
    IF endsWith(NameToLowerCase(originalname), ".zip")
    THEN VsiZipPath(filePath, << >>)
    ELSE PlainPath(filePath)

\* The four paths formatGDALPath of part_000 probes, in its order.
ProbeCandidates(filePath, originalName) ==
    LET baseNameOriginal == basename(originalName, ".zip")
        baseNameUpper ==
            IF toUpperCase(baseNameOriginal[Len(baseNameOriginal)]) # ".GDB"
            THEN baseNameOriginal \o <<".GDB">> ELSE baseNameOriginal
        lowered == NameToLowerCase(baseNameOriginal)
        baseNameLower ==
            IF ~endsWith(lowered, ".gdb") THEN lowered \o <<".gdb">> ELSE lowered
    IN  <<VsiZipPath(filePath, << >>),
          VsiZipPath(filePath, baseNameOriginal),
          VsiZipPath(filePath, baseNameUpper),
          VsiZipPath(filePath, baseNameLower)>>

\* formatGDALPath of part_001: an upload named *.zip is copied to
\* <scratch>.zip and the copy's plain path is returned; when the copy cannot
\* be made the path is /vsizip/<scratch>/<basename>.
ProperPath(filePath) == [filePath EXCEPT !.name = @ \o <<".zip">>]

formatGDALPathCopy(d, filePath, originalName) ==
    IF endsWith(NameToLowerCase(originalName), ".zip")
    THEN IF filePath \in DOMAIN d
         THEN [path |-> PlainPath(ProperPath(filePath)), opens |-> 0,
               copy |-> ProperPath(filePath)]
         ELSE [path |-> VsiZipPath(filePath, basename(originalName, ".zip")),
               opens |-> 0, copy |-> NoPath]
    ELSE [path |-> PlainPath(filePath), opens |-> 0, copy |-> NoPath]

\* The opens a resolver made up to and including candidate n, in order, each
\* with its path and whether the toolkit opened it.
Probes(d, cands, n) ==
    [i \in 1..n |-> [path |-> cands[i], ok |-> ToolkitOpen(d, cands[i]).ok]]

\* formatGDALPath of part_000: the path it returns, the toolkit opens it made
\* and the datasets among them it left open.  A probe that opens is closed
\* and its path returned at once; when none opens the second candidate is
\* returned.
formatGDALPath(d, filePath, originalName) ==
    IF endsWith(NameToLowerCase(originalName), ".zip")
    THEN LET cands == ProbeCandidates(filePath, originalName)
             hits == {i \in 1..Len(cands) : ToolkitOpen(d, cands[i]).ok}
             first == CHOOSE i \in hits : \A j \in hits : i <= j
         IN  IF hits = {}
             THEN [path |-> cands[2], opens |-> Len(cands),
                   probed |-> Probes(d, cands, Len(cands)), handles |-> 0]
             ELSE [path |-> cands[first], opens |-> first,
                   probed |-> Probes(d, cands, first), handles |-> Close(1)]
    ELSE [path |-> PlainPath(filePath), opens |-> 0, probed |-> << >>,
          handles |-> 0]

(***************************************************************************)
(* The handlers other than extractLayerFeatures.                           *)
(***************************************************************************)
\* getFileInfo of src/server.js: the toolkit's error is not wrapped.
getFileInfo(result) ==
    IF ~result.ok THEN OpenThrew(<<"open failed">>)
    ELSE Returned([kind |-> "info",
                   driver |-> IF result.driver # Null THEN result.driver.description
                                                      ELSE "Unknown",
                   size |-> [width |-> IF result.rasterSize # Null
                                       THEN result.rasterSize.x ELSE 0,
                             height |-> IF result.rasterSize # Null
                                        THEN result.rasterSize.y ELSE 0],
                   layers |-> Len(result.layers),
                   projection |-> IF result.srs # Null THEN result.srs.wkt
                                                       ELSE "Unknown",
                   extent |-> Null], 0, 0)

\* getFileInfo of the second revision in src/server.js: the driver is read
\* unguarded and the extent is the first layer's.
getFileInfo2(result) ==
    IF ~result.ok THEN OpenThrew(<<"open failed">>)
    ELSE IF Len(result.layers) > 0 /\ ~result.layers[1].readable
    THEN Threw(<<"layer failed">>)
    ELSE Closed(Returned([kind |-> "info",
                   driver |-> result.driver.description,
                   size |-> [width |-> IF result.rasterSize # Null
                                       THEN result.rasterSize.x ELSE 0,
                             height |-> IF result.rasterSize # Null
                                        THEN result.rasterSize.y ELSE 0],
                   layers |-> Len(result.layers),
                   projection |-> IF result.srs # Null THEN result.srs.wkt
                                                       ELSE "Unknown",
                   extent |-> IF Len(result.layers) > 0
                              THEN LayerExtent(result.layers[1]) ELSE Null], 0, 0))

\* The name of the placeholder entry: `Layer_${i}_Error`.
ErrorLayerName(i) ==
    CASE i = 0 -> "Layer_0_Error"
      [] i = 1 -> "Layer_1_Error"
      [] i = 2 -> "Layer_2_Error"
      [] OTHER -> "Layer_n_Error"

\* One sample feature: a geometry that cannot be read leaves geometry_type null.
SampleFeature(f) ==
    [fid |-> f.fid,
     geometry_type |-> IF f.kind \in {"nogeom", "corrupt"} THEN Null
                       ELSE [type |-> f.point.type]]

\* The first maxSamples features of a layer.
SampleFeatures(layer, maxSamples) ==
    [k \in 1..(IF Len(layer.features) < maxSamples THEN Len(layer.features)
                                                   ELSE maxSamples) |->
        SampleFeature(layer.features[k])]

\* The entry getDetailedInfo of src/server.js pushes for layer i (counted
\* from 0): the layer's own, or the placeholder of its catch block.
DetailedLayerEntry(layer, i) ==
    IF ~layer.readable
    THEN [name |-> ErrorLayerName(i), error |-> <<"layer failed">>,
          geometry_type |-> "Error", feature_count |-> 0,
          spatial_reference |-> "Error", extent |-> Null]
    ELSE [name |-> layer.name,
          geometry_type |-> "Point",
          feature_count |-> Len(layer.features),
          spatial_reference |-> IF layer.srs # "none" THEN layer.srs ELSE "Unknown",
          extent |-> LayerExtent(layer),
          sample_features |-> SampleFeatures(layer, 1)]

\* getDetailedInfo of src/server.js.
getDetailedInfo(result) ==
    IF ~result.ok THEN OpenThrew(<<"Failed to get detailed info: ", "open failed">>)
    ELSE Returned([kind |-> "detailed-info",
                   file_info |->
                       [driver |-> IF result.driver # Null
                                   THEN result.driver.description ELSE "Unknown",
                        layer_count |-> Len(result.layers), type |-> "vector"],
                   layers |-> [i \in 1..Len(result.layers) |->
                                  DetailedLayerEntry(result.layers[i], i - 1)]],
                  0, 0)

\* processSingleDataset of src/server.js: no access to a layer or to a
\* sample feature is guarded.
processSingleDataset(result) ==
    IF ~result.ok THEN OpenThrew(<<"open failed">>)
    ELSE IF \E i \in 1..Len(result.layers) : ~result.layers[i].readable
    THEN Threw(<<"layer failed">>)
    ELSE IF \E i \in 1..Len(result.layers) :
               \E k \in 1..Len(result.layers[i].features) :
                   k <= 3 /\ FeatureThrows(result.layers[i].features[k])
    THEN Threw(<<"feature failed">>)
    ELSE Closed(Returned([kind |-> "detailed-info",
                   file_info |->
                       [driver |-> result.driver.description,
                        layer_count |-> Len(result.layers),
                        type |-> IF result.rasterSize # Null THEN "raster"
                                                             ELSE "vector"],
                   layers |-> [i \in 1..Len(result.layers) |->
                                  [name |-> result.layers[i].name,
                                   geometry_type |-> "Point",
                                   feature_count |-> Len(result.layers[i].features),
                                   spatial_reference |->
                                       IF result.layers[i].srs # "none"
                                       THEN result.layers[i].srs ELSE "Unknown",
                                   extent |-> LayerExtent(result.layers[i]),
                                   sample_features |->
                                       SampleFeatures(result.layers[i], 3)]]],
                  0, 0))

\* The handles listZipContents of src/server.js leaves open: its probe of the
\* archive is closed as soon as it has succeeded.
ListZipHandles(result) == IF result.ok THEN Close(1) ELSE 0

\* getDetailedInfo of the second revision: an archive is opened once by
\* listZipContents, which names it as the only dataset whether or not the open
\* succeeded, and once more by processSingleDataset.
getDetailedInfo2(result, viaZip) ==
    LET out == processSingleDataset(result)
        wrapped == IF out.threw
                   THEN [Threw(<<"Failed to get detailed info: ">> \o out.message)
                            EXCEPT !.handles = out.handles]
                   ELSE out
        probe == IF viaZip THEN ListZipHandles(result) ELSE 0
    IN  [wrapped EXCEPT !.opened = IF viaZip THEN 2 ELSE 1,
                        !.handles = @ + probe,
                        !.probeHandles = probe]

\* listAllLayers of src/server.js: a layer whose access throws is logged and
\* left out of the array; layer_count is the toolkit's count.
listAllLayers(result) ==
    IF ~result.ok THEN OpenThrew(<<"Failed to list layers: ", "open failed">>)
    ELSE LET idx == SelectSeq([i \in 1..Len(result.layers) |-> i],
                              LAMBDA i : result.layers[i].readable)
         IN  Returned([kind |-> "list-layers",
                       file_info |->
                           [driver |-> IF result.driver # Null
                                       THEN result.driver.description ELSE "Unknown",
                            layer_count |-> Len(result.layers)],
                       layers |-> [k \in 1..Len(idx) |->
                                      [index |-> idx[k] - 1,
                                       name |-> result.layers[idx[k]].name,
                                       geometry_type |-> "Point",
                                       feature_count |->
                                           Len(result.layers[idx[k]].features)]]],
                      0, 0)

\* listAllLayers of the second revision: no layer access is guarded.
listAllLayers2(result) ==
    IF ~result.ok THEN OpenThrew(<<"Failed to list layers: ", "open failed">>)
    ELSE IF \E i \in 1..Len(result.layers) : ~result.layers[i].readable
    THEN Threw(<<"Failed to list layers: ", "layer failed">>)
    ELSE Closed(Returned([kind |-> "list-layers",
                   file_info |-> [driver |-> result.driver.description,
                                  layer_count |-> Len(result.layers)],
                   layers |-> [i \in 1..Len(result.layers) |->
                                  [index |-> i - 1,
                                   name |-> result.layers[i].name,
                                   geometry_type |-> "Point",
                                   feature_count |->
                                       Len(result.layers[i].features)]]],
                  0, 0))

FormatToUpperCase(format) ==
    CASE format = "GeoJSON" -> "GEOJSON"
      [] format = "geojson" -> "GEOJSON"
      [] format = "Shapefile" -> "SHAPEFILE"
      [] OTHER -> format

SupportedFormat(outputFormat) ==
    FormatToUpperCase(outputFormat) \in {"GEOJSON", "SHAPEFILE", "KML"}

RECURSIVE SumFeatures(_, _)
SumFeatures(layers, i) ==
    IF i > Len(layers) THEN 0
    ELSE Len(layers[i].features) + SumFeatures(layers, i + 1)

\* The GeoJSON feature the output driver writes for a source feature.
GeoJSONFeature(f) ==
    [type |-> "Feature", id |-> f.fid,
     geometry |-> IF f.kind = "nogeom" THEN Null ELSE f.point]

NothingCopied == [threw |-> FALSE, message |-> << >>, features |-> << >>]

CopyFailed(msg) == [threw |-> TRUE, message |-> msg, features |-> << >>]

\* The copy loop of convertFile from layer i on: each source layer gets an
\* output layer and every feature of it is added.  A layer that cannot be
\* read, an output driver that takes one layer only (strictDriver) and a
\* feature that cannot be read each end the loop with an exception.
RECURSIVE CopyLayers(_, _, _)
CopyLayers(layers, i, strictDriver) ==
    IF i > Len(layers) THEN NothingCopied
    ELSE IF ~layers[i].readable THEN CopyFailed(<<"layer failed">>)
    ELSE IF strictDriver /\ i > 1 THEN CopyFailed(<<"layer creation failed">>)
    ELSE IF \E k \in 1..Len(layers[i].features) : FeatureThrows(layers[i].features[k])
    THEN CopyFailed(<<"feature failed">>)
    ELSE LET rest == CopyLayers(layers, i + 1, strictDriver)
             written == [k \in 1..Len(layers[i].features) |->
                            GeoJSONFeature(layers[i].features[k])]
         IN  IF rest.threw THEN rest
             ELSE [rest EXCEPT !.features = written \o @]

\* WriteOutput with the last feature lost.
WriteOutputDropsLast(layerCount, features, strictDriver) ==
    IF strictDriver /\ layerCount = 0 THEN << >>
    ELSE <<"{\"type\":\"FeatureCollection\",\"features\":[">>
             \o SubSeq(features, 1, Len(features) - 1) \o <<"]}">>

\* The text of the output file after flush and close: the collection's
\* opening, one item per feature, its closing.  A driver that takes one layer
\* only writes nothing until a layer is created.
WriteOutput(layerCount, features, strictDriver) ==
    IF strictDriver /\ layerCount = 0 THEN << >>
    ELSE <<"{\"type\":\"FeatureCollection\",\"features\":[">> \o features \o <<"]}">>

\* JSON.parse of the text read back.
JSONParse(text) ==
    IF Len(text) < 2 THEN [ok |-> FALSE, value |-> NoValue]
    ELSE [ok |-> TRUE,
          value |-> [type |-> "FeatureCollection",
                     features |-> SubSeq(text, 2, Len(text) - 1)]]

\* An exception of the copy loop of convertFile: the input and the output
\* dataset are both open and the output file has been created.
ThrewWhileCopying(msg) == [Threw(msg) EXCEPT !.handles = 2, !.residue = TRUE]

\* convertFile of src/server.js: the dataset is opened before the format is
\* looked at.  Both datasets are closed after the flush, and the output file
\* is read back and unlinked before its text is parsed.
convertFile(result, outputFormat, strictDriver) ==
    IF ~result.ok THEN OpenThrew(<<"open failed">>)
    ELSE IF ~SupportedFormat(outputFormat)
    THEN Threw(<<"Unsupported format: ", outputFormat>>)
    ELSE LET copy == CopyLayers(result.layers, 1, strictDriver)
             convertedData == WriteOutput(Len(result.layers), copy.features,
                                          strictDriver)
             parsed == JSONParse(convertedData)
         IN  IF copy.threw THEN ThrewWhileCopying(copy.message)
             ELSE IF FormatToUpperCase(outputFormat) = "GEOJSON"
             THEN IF ~parsed.ok
                  THEN Closed(Threw(<<"Unexpected end of JSON input">>))
                  ELSE Closed(Returned([kind |-> "convert", format |-> outputFormat,
                                        data |-> parsed.value], 0, 0))
             ELSE Closed(Returned([kind |-> "convert", format |-> outputFormat,
                                   data |-> convertedData], 0, 0))

\* The extension convertFile gives the output file.
Extension(outputFormat) ==
    CASE FormatToUpperCase(outputFormat) = "GEOJSON" -> ".geojson"
      [] FormatToUpperCase(outputFormat) = "SHAPEFILE" -> ".shp"
      [] FormatToUpperCase(outputFormat) = "KML" -> ".kml"
      [] OTHER -> ""

\* finalOutputPath of convertFile: the input path with the first occurrence
\* of its extension replaced by ".converted", and the output's extension.
FinalOutputPath(file, outputFormat) ==
    LET ext == file.name[Len(file.name)]
        at == CHOOSE i \in 1..Len(file.name) :
                 /\ file.name[i] = ext
                 /\ \A j \in 1..(i - 1) : file.name[j] # ext
    IN  [file EXCEPT !.name = [i \in 1..Len(file.name) |->
                                  IF i = at THEN ".converted" ELSE file.name[i]]
                              \o <<Extension(outputFormat)>>]

\* The disk after convertFile on the file: the output file is on it when the
\* function ended between its creation and its unlink.
AfterConvert(d, file, outputFormat, out) ==
    IF out.residue THEN Store(d, FinalOutputPath(file, outputFormat), NoContent)
    ELSE d

\* getFileInfo of part_000.
getFileInfoBasic(result) ==
    IF ~result.ok THEN OpenThrew(<<"Failed to read file: ", "open failed">>)
    ELSE Returned([kind |-> "file_info",
                   file_info |-> [type |-> "Geospatial", driver |-> "description",
                                  layer_count |-> Len(result.layers)]], 0, 0)

\* getDetailedInfo of part_000.
getDetailedInfoBasic(result) ==
    IF ~result.ok THEN OpenThrew(<<"Failed to get detailed info: ", "open failed">>)
    ELSE IF \E i \in 1..Len(result.layers) : ~result.layers[i].readable
    THEN Threw(<<"Failed to get detailed info: ", "layer failed">>)
    ELSE Returned([kind |-> "detailed-info",
                   file_info |-> [type |-> "Geospatial", driver |-> "description",
                                  layer_count |-> Len(result.layers)],
                   layers |-> [i \in 1..Len(result.layers) |->
                                  [name |-> result.layers[i].name,
                                   geometry_type |-> "Point",
                                   feature_count |-> Len(result.layers[i].features)]]],
                  0, 0)

\* extractLayerBasic of part_000: no transformation, no cap, and the error
\* for a missing layer names only the layer asked for.
extractLayerBasic(result, layerName) ==
    IF ~result.ok THEN OpenThrew(<<"Failed to extract layer: ", "open failed">>)
    ELSE LET i == FindLayer(result.layers, layerName)
         IN  IF i = 0
             THEN Threw(<<"Failed to extract layer: ", "Layer \"", layerName,
                          "\" not found">>)
             ELSE LET layer == result.layers[i]
                      features ==
                          [k \in 1..Len(layer.features) |->
                              FeatureData(layer.features[k], FALSE, layer.srs)]
                  IN  IF \E k \in 1..Len(layer.features) :
                             FeatureThrows(layer.features[k])
                      THEN Threw(<<"Failed to extract layer: ", "feature failed">>)
                      ELSE
                      Returned([kind |-> "layer", name |-> layerName,
                                feature_count |-> Len(features),
                                coordinate_transformation_applied |-> FALSE,
                                features |-> features], 0, 0)

(***************************************************************************)
(* The /process-geospatial handler.                                        *)
(***************************************************************************)
Absent == ""

Recognized == {"info", "detailed-info", "list-layers", "extract-layer", "convert"}

NoOutcome ==
    [threw |-> FALSE, message |-> << >>, value |-> NoValue,
     opened |-> 0, ctBuilt |-> 0, txCalls |-> 0,
     handles |-> 0, probeHandles |-> 0, residue |-> FALSE]

NoResponse == [status |-> 0, error |-> << >>, details |-> << >>, result |-> NoValue]

NoBody ==
    [operation |-> Absent, format |-> Absent, layerName |-> Absent,
     transformCoords |-> Absent, transformCoordinates |-> Absent,
     targetSRS |-> Absent]

NewRequest ==
    [phase |-> "new", hasFile |-> FALSE, path |-> NoPath, originalname |-> << >>,
     content |-> NoContent, body |-> NoBody, gdalPath |-> PlainPath(NoPath),
     fn |-> "none", opens |-> 0, outcome |-> NoOutcome, response |-> NoResponse,
     copy |-> NoPath, unlinkFails |-> FALSE, probed |-> << >>,
     probeHandles |-> 0, responses |-> 0]

\* The forms a client sends.
Bodies ==
    [operation : {Absent, "info", "detailed-info", "list-layers", "bogus"},
     format : {Absent}, layerName : {Absent},
     transformCoords : {Absent}, transformCoordinates : {Absent},
     targetSRS : {Absent}]
    \cup [operation : {"convert"},
          format : {Absent, "GeoJSON", "geojson", "Shapefile", "KML", "PDF"},
          layerName : {Absent},
          transformCoords : {Absent}, transformCoordinates : {Absent},
          targetSRS : {Absent}]
    \cup [operation : {"extract-layer"}, format : {Absent},
          layerName : {Absent, "roads", "Roads"},
          transformCoords : {Absent, "false"},
          transformCoordinates : {Absent, "true", "false"},
          targetSRS : {Absent}]
    \cup [operation : {"reproject"}, format : {Absent}, layerName : {Absent},
          transformCoords : {Absent}, transformCoordinates : {Absent},
          targetSRS : {Absent, "EPSG:3857"}]

\* The switch of the handler: the function it calls, or the 400 it answers.
\* src/server.js lines 55 and 66-90.
ServerDispatch(body) ==
    LET operation == IF body.operation # Absent THEN body.operation ELSE "info"
    IN  CASE operation = "info" -> [fn |-> "getFileInfo", error |-> << >>]
          [] operation = "detailed-info" -> [fn |-> "getDetailedInfo", error |-> << >>]
          [] operation = "list-layers" -> [fn |-> "listAllLayers", error |-> << >>]
          [] operation = "convert" -> [fn |-> "convertFile", error |-> << >>]
          [] operation = "extract-layer" ->
                IF body.layerName = Absent
                THEN [fn |-> "none",
                      error |-> <<"Layer name is required for extraction">>]
                ELSE [fn |-> "extractLayerFeatures", error |-> << >>]
          [] OTHER -> [fn |-> "getFileInfo", error |-> << >>]

\* The switch of the second revision: src/server.js lines 667 and 678-694.
Server2Dispatch(body) ==
    LET operation == IF body.operation # Absent THEN body.operation ELSE "info"
    IN  CASE operation = "info" -> [fn |-> "getFileInfo2", error |-> << >>]
          [] operation = "detailed-info" -> [fn |-> "getDetailedInfo2", error |-> << >>]
          [] operation = "list-layers" -> [fn |-> "listAllLayers2", error |-> << >>]
          [] operation = "convert" -> [fn |-> "convertFile", error |-> << >>]
          [] OTHER -> [fn |-> "getFileInfo2", error |-> << >>]

\* part_000 lines 214-240; part_001 lines 188-214 are the same switch.
Part000Dispatch(body) ==
    LET operation == body.operation
    IN  CASE operation = "info" -> [fn |-> "getFileInfoBasic", error |-> << >>]
          [] operation = "detailed-info" ->
                [fn |-> "getDetailedInfoBasic", error |-> << >>]
          [] operation = "list-layers" -> [fn |-> "getFileInfoBasic", error |-> << >>]
          [] operation = "extract-layer" ->
                IF body.layerName = Absent
                THEN [fn |-> "none", error |-> <<"Layer name required">>]
                ELSE [fn |-> "extractLayerBasic", error |-> << >>]
          [] OTHER -> [fn |-> "none", error |-> <<"Unknown operation">>]

Dispatch(rv, body) ==
    CASE rv = "server" -> ServerDispatch(body)
      [] rv = "server2" -> Server2Dispatch(body)
      [] OTHER -> Part000Dispatch(body)

\* src/server.js line 82: the flag is read from the field transformCoords.
TransformCoordsFlag(body) == body.transformCoords # "false"

\* src/server.js line 77.
FormatField(body) == IF body.format # Absent THEN body.format ELSE "GeoJSON"

\* The call the switch makes, on the dataset the toolkit's open returns.  The
\* output driver of a conversion takes every layer handed to it.
RunHandler(fn, result, body, gdalPath) ==
    CASE fn = "getFileInfo" -> getFileInfo(result)
      [] fn = "getDetailedInfo" -> getDetailedInfo(result)
      [] fn = "listAllLayers" -> listAllLayers(result)
      [] fn = "convertFile" -> convertFile(result, FormatField(body), FALSE)
      [] fn = "extractLayerFeatures" ->
            extractLayerFeatures(result, body.layerName, TransformCoordsFlag(body))
      [] fn = "getFileInfo2" -> getFileInfo2(result)
      [] fn = "getDetailedInfo2" -> getDetailedInfo2(result, gdalPath.vsizip)
      [] fn = "listAllLayers2" -> listAllLayers2(result)
      [] fn = "getFileInfoBasic" -> getFileInfoBasic(result)
      [] fn = "getDetailedInfoBasic" -> getDetailedInfoBasic(result)
      [] fn = "extractLayerBasic" -> extractLayerBasic(result, body.layerName)

\* The path the handler hands the toolkit, the opens resolving it made and
\* the copy of the upload it left on the disk, if any.
ResolvePath(rv, d, filePath, originalname) ==
    CASE rv \in DiskStorageRevisions ->
            [path |-> ServerGdalPath(filePath, originalname), opens |-> 0,
             copy |-> NoPath, probed |-> << >>, handles |-> 0]
      [] rv = "part000" ->
            LET f == formatGDALPath(d, filePath, originalname)
            IN  [path |-> f.path, opens |-> f.opens, copy |-> NoPath,
                 probed |-> f.probed, handles |-> f.handles]
      [] OTHER ->
            LET f == formatGDALPathCopy(d, filePath, originalname)
            IN  [path |-> f.path, opens |-> f.opens, copy |-> f.copy,
                 probed |-> << >>, handles |-> 0]

\* The body of the 500 answer: src/server.js lines 109-112, part_000 line 259.
ErrorResponse(rv, message) ==
    IF rv \in DiskStorageRevisions
    THEN [status |-> 500, error |-> <<"Processing failed">>, details |-> message,
          result |-> NoValue]
    ELSE [status |-> 500, error |-> message, details |-> << >>, result |-> NoValue]

ClientError(message) ==
    [status |-> 400, error |-> message, details |-> << >>, result |-> NoValue]

Success(value) == [status |-> 200, error |-> << >>, details |-> << >>, result |-> value]

\* What the unlink of the scratch file throws: nothing (<< >>), ENOENT when
\* the file is gone, or the error of a file system that refuses.
UnlinkError(d, path, unlinkFails) ==
    IF path \notin DOMAIN d THEN <<"ENOENT">>
    ELSE IF unlinkFails THEN <<"EPERM">>
    ELSE << >>

\* The answer once the handler function is back.  Its exception goes to the
\* catch block; so does the exception of the cleanup that follows its return:
\* of the unlink, and in part_001 of the reference to processedPath, a name
\* that revision never declares.
\* The responses the try block sends after the function has ended: res.json
\* is reached when nothing has thrown before it.
SendsInTry(rv, out, unlinkError) ==
    IF ~out.threw /\ unlinkError = << >> /\ rv # "part001" THEN 1 ELSE 0

\* A catch block that answers whether or not anything was thrown.
SendsInCatchAlways(rv, out, unlinkError) == 1

\* The responses the catch block sends: one when anything was thrown.
SendsInCatch(rv, out, unlinkError) ==
    IF out.threw \/ unlinkError # << >> \/ rv = "part001" THEN 1 ELSE 0

FinishResponse(rv, out, unlinkError) ==
    IF out.threw THEN ErrorResponse(rv, out.message)
    ELSE IF unlinkError # << >> THEN ErrorResponse(rv, unlinkError)
    ELSE IF rv = "part001" THEN ErrorResponse(rv, <<"processedPath is not defined">>)
    ELSE Success(out.value)

(***************************************************************************)
(* Actions.                                                                *)
(***************************************************************************)
\* The upload middleware: multer stores the file, if the request has one.
Receive(r, hasFile, originalname, content, body, unlinkFails) ==
    /\ req[r].phase = "new"
    /\ LET path == ScratchPath(rev, clock, r, originalname)
       IN  IF hasFile
           THEN /\ disk' = Store(disk, path, content)
                /\ req' = [req EXCEPT ![r] =
                              [@ EXCEPT !.phase = "received", !.hasFile = TRUE,
                                        !.path = path, !.originalname = originalname,
                                        !.content = content, !.body = body,
                                        !.unlinkFails = unlinkFails]]
           ELSE /\ disk' = disk
                /\ req' = [req EXCEPT ![r] =
                              [@ EXCEPT !.phase = "received", !.body = body]]
    /\ UNCHANGED <<rev, clock, call>>

\* The handler up to its first await: the file check, path resolution and the
\* switch, with its early returns.
Begin(r) ==
    /\ req[r].phase = "received"
    /\ IF ~req[r].hasFile
       THEN /\ req' = [req EXCEPT ![r] =
                          [@ EXCEPT !.phase = "responded",
                                    !.responses = @ + 1,
                                    !.response = ClientError(<<"No file uploaded">>)]]
            /\ disk' = disk
       ELSE LET resolved == ResolvePath(rev, disk, req[r].path, req[r].originalname)
                d == Dispatch(rev, req[r].body)
            IN  /\ req' = [req EXCEPT ![r] =
                              IF d.fn = "none"
                              THEN [@ EXCEPT !.phase = "responded",
                                             !.gdalPath = resolved.path,
                                             !.opens = resolved.opens,
                                             !.copy = resolved.copy,
                                             !.probed = resolved.probed,
                                             !.probeHandles = resolved.handles,
                                             !.responses = @ + 1,
                                             !.response = ClientError(d.error)]
                              ELSE [@ EXCEPT !.phase = "calling",
                                             !.gdalPath = resolved.path,
                                             !.opens = resolved.opens,
                                             !.copy = resolved.copy,
                                             !.probed = resolved.probed,
                                             !.probeHandles = resolved.handles,
                                             !.fn = d.fn]]
                /\ disk' = IF resolved.copy # NoPath
                           THEN Store(disk, resolved.copy, disk[req[r].path])
                           ELSE disk
    /\ UNCHANGED <<rev, clock, call>>

\* The awaited handler function: the toolkit opens the path and the function
\* returns or throws.
Call(r) ==
    /\ req[r].phase = "calling"
    /\ LET out == RunHandler(req[r].fn, ToolkitOpen(disk, req[r].gdalPath),
                             req[r].body, req[r].gdalPath)
       IN  /\ req' = [req EXCEPT ![r] =
                         [@ EXCEPT !.phase = "called", !.outcome = out,
                                   !.opens = @ + out.opened]]
           /\ disk' = IF req[r].fn = "convertFile"
                      THEN AfterConvert(disk, req[r].gdalPath.file,
                                        FormatField(req[r].body), out)
                      ELSE disk
    /\ UNCHANGED <<rev, clock, call>>

\* Cleanup and the response.  The scratch file is unlinked on the success
\* path and, when anything threw, once more in the catch block, where a
\* failure is only logged.
Finish(r) ==
    /\ req[r].phase = "called"
    /\ LET unlinkError == UnlinkError(disk, req[r].path, req[r].unlinkFails)
       IN  /\ req' = [req EXCEPT ![r] =
                         [@ EXCEPT !.phase = "responded",
                                   !.responses =
                                       @ + SendsInTry(rev, req[r].outcome, unlinkError)
                                         + SendsInCatch(rev, req[r].outcome, unlinkError),
                                   !.response =
                                       FinishResponse(rev, req[r].outcome, unlinkError)]]
           /\ disk' = IF req[r].unlinkFails THEN disk ELSE Unlink(disk, req[r].path)
    /\ UNCHANGED <<rev, clock, call>>

\* Date.now() advances.
Tick ==
    /\ clock < MaxClock
    /\ clock' = clock + 1
    /\ UNCHANGED <<rev, disk, req, call>>

Init ==
    /\ rev \in Revisions
    /\ clock = 0
    /\ disk = << >>
    /\ req = [r \in 1..MaxRequests |-> NewRequest]
    /\ call = NoCall

\* One request, with every form and file.
Arrive(r) ==
    /\ req[r].phase = "new"
    /\ \E body \in Bodies :
          \/ Receive(r, FALSE, << >>, NoContent, body, FALSE)
          \/ \E originalname \in OriginalNames, content \in FileContents,
                   unlinkFails \in BOOLEAN :
                Receive(r, TRUE, originalname, content, body, unlinkFails)

Next == Arrive(1) \/ Begin(1) \/ Call(1) \/ Finish(1)

Spec == Init /\ [][Next]_vars

(***************************************************************************)
(* Requests in flight together: MaxRequests requests, a few forms and      *)
(* files, and a clock that may or may not advance between two uploads.     *)
(***************************************************************************)
ConcNames == {<<"data", ".shp">>, <<"UMN", ".gdb", ".zip">>}

ConcContents ==
    {[archive |-> FALSE, entry |-> << >>, readable |-> TRUE,
      layers |-> DatasetLayers(names, "utm")] : names \in {<<"roads">>, <<"rivers">>}}

ConcBodies ==
    {[NoBody EXCEPT !.operation = "info"],
     [NoBody EXCEPT !.operation = "extract-layer", !.layerName = "roads"]}

ArriveConc(r) ==
    /\ req[r].phase = "new"
    /\ \E originalname \in ConcNames, content \in ConcContents, body \in ConcBodies :
          Receive(r, TRUE, originalname, content, body, FALSE)

NextConc ==
    \/ Tick
    \/ \E r \in 1..MaxRequests : ArriveConc(r) \/ Begin(r) \/ Call(r) \/ Finish(r)

SpecConc == Init /\ [][NextConc]_vars

(***************************************************************************)
(* What a request is answered when it is served alone.                     *)
(***************************************************************************)
InFlight(r) == req[r].phase \in {"received", "calling", "called"}

Responded(r) == req[r].phase = "responded"

\* The dataset the toolkit reads from the request's own upload.
OwnDataset(r) == ToolkitOpen(Store(<< >>, req[r].path, req[r].content), req[r].gdalPath)

SoloResponse(r) ==
    LET own == Store(<< >>, req[r].path, req[r].content)
        resolved == ResolvePath(rev, own, req[r].path, req[r].originalname)
        d == Dispatch(rev, req[r].body)
        copied == IF resolved.copy # NoPath
                  THEN Store(own, resolved.copy, req[r].content) ELSE own
        out == RunHandler(d.fn, ToolkitOpen(copied, resolved.path), req[r].body,
                          resolved.path)
    IN  IF ~req[r].hasFile THEN ClientError(<<"No file uploaded">>)
        ELSE IF d.fn = "none" THEN ClientError(d.error)
        ELSE FinishResponse(rev, out, << >>)

(***************************************************************************)
(* Claims about the request pipeline.                                      *)
(***************************************************************************)
\* C1: once a request that carried a file has been answered, with any
\* status, its scratch file no longer exists.
C1_ScratchFileRemoved ==
    \A r \in 1..MaxRequests :
        (Responded(r) /\ req[r].hasFile) => req[r].path \notin DOMAIN disk

\* C2: two requests in flight at the same time never have the same scratch
\* path, whatever their original file names and arrival times.
C2_DistinctScratchNames ==
    \A r1, r2 \in 1..MaxRequests :
        (r1 # r2 /\ InFlight(r1) /\ InFlight(r2) /\ req[r1].hasFile /\ req[r2].hasFile)
            => req[r1].path # req[r2].path

\* C3: requests are independent: while a request has not yet read its
\* scratch file, the file exists and holds what that request uploaded, and
\* the response a request gets is the one it gets when served alone.
C3_RequestsIndependent ==
    \A r \in 1..MaxRequests :
        /\ (req[r].phase \in {"received", "calling"} /\ req[r].hasFile) =>
               (req[r].path \in DOMAIN disk /\ disk[req[r].path] = req[r].content)
        /\ Responded(r) => req[r].response = SoloResponse(r)

\* C4: a request whose operation is missing or unrecognized is answered
\* with a 4xx status whose message names the bad value.
C4_UnknownOperationRejected ==
    \A r \in 1..MaxRequests :
        (Responded(r) /\ req[r].hasFile /\ req[r].body.operation \notin Recognized) =>
            /\ req[r].response.status \in 400..499
            /\ req[r].body.operation # Absent =>
                   req[r].body.operation \in Range(req[r].response.error)

\* C5: a request answered 400 made no toolkit open call before the answer.
C5_NoOpenBeforeClientError ==
    \A r \in 1..MaxRequests :
        (Responded(r) /\ req[r].response.status = 400) => req[r].opens = 0

\* The request asks for a layer that the dataset it uploaded does not have.
UnknownLayerRequest(r) ==
    /\ req[r].hasFile
    /\ req[r].body.operation = "extract-layer"
    /\ req[r].body.layerName # Absent
    /\ OwnDataset(r).ok
    /\ FindLayer(OwnDataset(r).layers, req[r].body.layerName) = 0

\* The request asks convert for a format that is none of the three.
UnsupportedFormatRequest(r) ==
    /\ req[r].hasFile
    /\ req[r].body.operation = "convert"
    /\ ~SupportedFormat(FormatField(req[r].body))

\* C6: extract-layer with a layer name the dataset does not have, and
\* convert with an unsupported format, are answered with a 4xx status.
C6_ClientErrorsAre4xx ==
    \A r \in 1..MaxRequests :
        (Responded(r) /\ (UnknownLayerRequest(r) \/ UnsupportedFormatRequest(r))) =>
            req[r].response.status \in 400..499

\* C7: for extract-layer with a layer name the dataset does not have, the
\* error returned names every layer of the dataset.
C7_ErrorListsEveryLayer ==
    \A r \in 1..MaxRequests :
        (Responded(r) /\ UnknownLayerRequest(r)) =>
            \A i \in 1..Len(OwnDataset(r).layers) :
                OwnDataset(r).layers[i].name \in
                    Range(req[r].response.error) \cup Range(req[r].response.details)

\* The layer an extract-layer request names, in its own dataset.
TargetLayer(r) ==
    OwnDataset(r).layers[FindLayer(OwnDataset(r).layers, req[r].body.layerName)]

\* C10: in src/server.js, an extract-layer request with
\* transformCoordinates=false has no reprojection attempted and gets the
\* geometries as stored; with the flag omitted or true, and a layer that has
\* a spatial reference, reprojection to EPSG:4326 is attempted.
C10_TransformCoordinatesFlag ==
    \A r \in 1..MaxRequests :
        (/\ rev = "server"
         /\ Responded(r)
         /\ req[r].fn = "extractLayerFeatures"
         /\ ~req[r].outcome.threw) =>
            /\ req[r].body.transformCoordinates = "false" =>
                  /\ req[r].outcome.ctBuilt = 0
                  /\ req[r].outcome.txCalls = 0
                  /\ \A i \in 1..Len(req[r].outcome.value.features) :
                        req[r].outcome.value.features[i].geometry
                            = TargetLayer(r).features[i].point
            /\ (req[r].body.transformCoordinates # "false"
                    /\ TargetLayer(r).srs # "none") =>
                  req[r].outcome.ctBuilt = 1

(***************************************************************************)
(* The specification of extractLayerFeatures alone: Init draws a call's    *)
(* arguments, the action runs it.                                          *)
(***************************************************************************)
\* Small layers of every composition, under every argument.
SmallCalls ==
    UNION {[fn : {"extractLayerFeatures"}, n : {k}, pat : [1..k -> FeatureKinds],
            srs : SrsKinds, layerName : {"roads", "Roads"},
            transformCoords : BOOLEAN, done : {FALSE}, out : {NoValue}]
           : k \in 0..MaxSmall}

\* Layers around the cap, plain but for a short prefix.
LargeCalls ==
    UNION {[fn : {"extractLayerFeatures"},
            n : {maxFeatures - 1, maxFeatures, maxFeatures + 1},
            pat : [1..k -> FeatureKinds],
            srs : {"none", "utm"}, layerName : {"roads"},
            transformCoords : BOOLEAN, done : {FALSE}, out : {NoValue}]
           : k \in 0..MaxPrefix}

ExtractCalls == SmallCalls \cup LargeCalls

\* The dataset of a call: the layer "roads" after a layer "rivers".
CallDataset(c) ==
    Opened(<<Layer("rivers", "wgs84", 0, <<"plain">>),
             Layer("roads", c.srs, c.n, c.pat)>>)

InitExtract ==
    /\ rev = "server"
    /\ clock = 0
    /\ disk = << >>
    /\ req = [r \in 1..MaxRequests |-> NewRequest]
    /\ call \in ExtractCalls

RunExtract ==
    /\ call.fn = "extractLayerFeatures"
    /\ ~call.done
    /\ call' = [call EXCEPT !.done = TRUE,
                   !.out = extractLayerFeatures(CallDataset(call), call.layerName,
                                                call.transformCoords)]
    /\ UNCHANGED <<rev, clock, disk, req>>

NextExtract == RunExtract

SpecExtract == InitExtract /\ [][NextExtract]_vars

\* C8: extractLayerFeatures returns at most maxFeatures features, and
\* extraction_summary.truncated is true exactly when the number of features
\* returned reached maxFeatures.
C8_CapAndTruncation ==
    (call.fn = "extractLayerFeatures" /\ call.done /\ ~call.out.threw) =>
        LET v == call.out.value
        IN  /\ Len(v.features) <= maxFeatures
            /\ v.extraction_summary.truncated <=> (Len(v.features) = maxFeatures)

\* The cap case of C8: a layer of more than maxFeatures features was cut.
C8_Witness ==
    /\ call.fn = "extractLayerFeatures" /\ call.done /\ ~call.out.threw
    /\ call.n > maxFeatures
    /\ Len(call.out.value.features) = maxFeatures
    /\ call.out.value.extraction_summary.truncated

\* C9: with transformation requested, every feature extractLayerFeatures
\* returns has its coordinates inside the WGS84 bounds, whatever the layer's
\* reference system and whether or not a transform could be built or applied.
C9_GeometryInWGS84 ==
    (call.fn = "extractLayerFeatures" /\ call.done /\ ~call.out.threw
        /\ call.transformCoords) =>
        \A i \in 1..Len(call.out.value.features) :
            InWGS84(call.out.value.features[i].geometry)

\* C11: coordinate_transformation_applied is true only if every geometry
\* returned is the reprojected one, not a fallback to the stored geometry.
C11_AppliedMeansReprojected ==
    (call.fn = "extractLayerFeatures" /\ call.done /\ ~call.out.threw
        /\ call.out.value.coordinate_transformation_applied
        /\ call.out.value.extraction_summary.coordinate_transformation_applied) =>
        \A i \in 1..Len(call.out.value.features) :
            call.out.value.features[i].geometry.type = "Point" =>
                call.out.value.features[i].geometry
                    = Transform(call.srs, NativePoint(call.srs))

\* The features of the layer asked for whose callback does not throw, in
\* the layer's order.
ReadableFeatures ==
    SelectSeq(CallDataset(call).layers[2].features, LAMBDA f : f.kind # "corrupt")

\* extractLayerFeatures found the layer and is back.
Extracted ==
    call.fn = "extractLayerFeatures" /\ call.done /\ call.layerName = "roads"

\* C25: the coordinate transformation is constructed at most once per call
\* and used for every feature with a geometry; when its construction throws,
\* or one feature's transform throws, the feature is still returned, with
\* its untransformed geometry, and the extraction completes without error.
C25_TransformBuiltOnceWithFallback ==
    Extracted =>
        /\ ~call.out.threw
        /\ call.out.ctBuilt <= 1
        /\ LET src == ReadableFeatures
               features == call.out.value.features
           IN  /\ Len(features)
                     = (IF Len(src) < maxFeatures THEN Len(src) ELSE maxFeatures)
               /\ call.out.value.coordinate_transformation_applied =>
                     /\ call.out.ctBuilt = 1
                     /\ call.out.txCalls
                           = Len(SelectSeq(features, LAMBDA d : d.geometry # Null))
               /\ \A i \in 1..Len(features) :
                     /\ features[i].fid = src[i].fid
                     /\ src[i].kind = "nogeom" => features[i].geometry = Null
                     /\ (src[i].kind = "untransformable"
                            \/ (src[i].kind = "plain" /\ call.srs = "local")) =>
                           features[i].geometry = src[i].point

\* The fallback case of C25: a transformation was built, one feature's
\* transform threw, and the feature is in the answer as it is stored.
C25_Witness ==
    /\ Extracted /\ ~call.out.threw
    /\ call.transformCoords /\ call.srs = "utm" /\ call.out.ctBuilt = 1
    /\ \E i \in 1..Len(call.out.value.features) :
          /\ ReadableFeatures[i].kind = "untransformable"
          /\ call.out.value.features[i].geometry = NativePoint("utm")

\* C28: feature_count, extraction_summary.total_extracted and the length of
\* the features array are equal, also when features were skipped because
\* reading them threw and when the cap was reached.
C28_CountsAgree ==
    (Extracted /\ ~call.out.threw) =>
        LET v == call.out.value
        IN  /\ v.feature_count = Len(v.features)
            /\ v.extraction_summary.total_extracted = Len(v.features)

\* The case of C28 with a skipped feature and the cap reached.
C28_Witness ==
    /\ Extracted /\ ~call.out.threw
    /\ call.n > maxFeatures
    /\ Len(call.pat) > 0 /\ call.pat[1] = "corrupt"
    /\ Len(call.out.value.features) = maxFeatures
    /\ call.out.value.feature_count = maxFeatures

\* C29: truncated is true only if at least one feature of the layer was left
\* out of the features array because of the cap; a layer of maxFeatures or
\* fewer features is never reported as truncated.
C29_TruncatedOnlyIfLeftOut ==
    (Extracted /\ ~call.out.threw) =>
        LET v == call.out.value
        IN  /\ v.extraction_summary.truncated =>
                  Len(ReadableFeatures) > Len(v.features)
            /\ call.n <= maxFeatures => ~v.extraction_summary.truncated

\* C30: spatial_reference.transformed is non-null only if
\* coordinate_transformation_applied is true.
C30_TransformedLabelOnlyIfApplied ==
    (Extracted /\ ~call.out.threw) =>
        (call.out.value.spatial_reference.transformed # "null" =>
            call.out.value.coordinate_transformation_applied)

(***************************************************************************)
(* Claims about the answer and the cleanup, in every revision (Spec).      *)
(***************************************************************************)
\* The handler function of request r was called and returned a value.
HandlerReturned(r) ==
    Responded(r) /\ req[r].hasFile /\ req[r].fn # "none" /\ ~req[r].outcome.threw

\* C12: with a file, a recognized operation and its required fields, whenever
\* the handler function returns without throwing (and the file system lets
\* the scratch file go) the answer is 200 and its body is exactly the value
\* the function returned, in every revision.
C12_HandlerResultReturned ==
    (HandlerReturned(1) /\ req[1].body.operation \in Recognized
        /\ ~req[1].unlinkFails) =>
        req[1].response = Success(req[1].outcome.value)

\* C13: when the handler function succeeded and removing the scratch file
\* throws, the caller still gets 200 and the function's value.
C13_CleanupFailureNotSurfaced ==
    (HandlerReturned(1) /\ req[1].unlinkFails) =>
        req[1].response = Success(req[1].outcome.value)

\* C14: the <scratch>.zip copy part_001 makes of an archive upload is gone
\* once the request has been answered, with any status.
C14_ZipCopyRemoved ==
    (rev = "part001" /\ Responded(1) /\ req[1].copy # NoPath) =>
        req[1].copy \notin DOMAIN disk

InfoKeys == {"driver", "size", "layers", "projection", "extent"}

\* C15: the 200 answer to operation=info on a readable non-archive file has
\* the keys driver, size, layers, projection and extent, with 0 for a size
\* and "Unknown" for a projection the dataset does not have, in every revision.
C15_InfoKeysAlwaysPresent ==
    (Responded(1) /\ req[1].hasFile /\ req[1].body.operation = "info"
        /\ ~req[1].content.archive /\ req[1].content.readable
        /\ req[1].response.status = 200) =>
        LET v == req[1].response.result
            own == Opened(req[1].content.layers)
        IN  /\ InfoKeys \subseteq DOMAIN v
            /\ v.layers = Len(own.layers)
            /\ own.rasterSize = Null => v.size = [width |-> 0, height |-> 0]
            /\ own.srs = Null => v.projection = "Unknown"

\* C19: a request with operation=reproject and a targetSRS field is
\* dispatched to reprojectFile, in the revision that defines it.
C19_ReprojectDispatched ==
    (rev = "server2" /\ Responded(1) /\ req[1].hasFile
        /\ req[1].body.operation = "reproject"
        /\ req[1].body.targetSRS # Absent) =>
        req[1].fn = "reprojectFile"

\* C21: in both revisions of src/server.js, once the function a request
\* dispatched to has returned or thrown, no dataset it opened is still open.
C21_HandlesClosed ==
    (rev \in DiskStorageRevisions /\ req[1].phase \in {"called", "responded"}
        /\ req[1].fn # "none") =>
        req[1].outcome.handles = 0

(***************************************************************************)
(* One request served to its end.  Every awaited toolkit or file system    *)
(* call returns or throws, so a handler that can take its next step takes  *)
(* it: the steps after the upload are weakly fair.                         *)
(***************************************************************************)
LiveContents == ConcContents \cup {NoContent}

LiveBodies ==
    ConcBodies
    \cup {[NoBody EXCEPT !.operation = "bogus"],
          [NoBody EXCEPT !.operation = "extract-layer"],
          [NoBody EXCEPT !.operation = "convert", !.format = "PDF"]}

ArriveLive ==
    /\ req[1].phase = "new"
    /\ \E body \in LiveBodies :
          \/ Receive(1, FALSE, << >>, NoContent, body, FALSE)
          \/ \E originalname \in ConcNames, content \in LiveContents,
                   unlinkFails \in BOOLEAN :
                Receive(1, TRUE, originalname, content, body, unlinkFails)

NextLive == ArriveLive \/ Begin(1) \/ Call(1) \/ Finish(1)

SpecLive ==
    /\ Init
    /\ [][NextLive]_vars
    /\ WF_vars(Begin(1))
    /\ WF_vars(Call(1))
    /\ WF_vars(Finish(1))

\* C27: a request that has reached the handler is never sent two responses,
\* it has been sent exactly one when the handler is done with it, and the
\* handler is eventually done with it.
C27_ExactlyOneResponse ==
    /\ [](req[1].responses <= 1 /\ (Responded(1) <=> req[1].responses = 1))
    /\ (req[1].phase = "received" ~> req[1].responses = 1)

\* The case of C27 where a second response would follow the first: the
\* function returned, the scratch file was unlinked and 200 was sent.
C27_Witness ==
    /\ Responded(1)
    /\ req[1].hasFile
    /\ req[1].response.status = 200
    /\ req[1].responses = 1

(***************************************************************************)
(* The listing functions on their own, on datasets whose layers and        *)
(* features may fail to read.                                              *)
(***************************************************************************)
PositionalNames == <<"roads", "rivers", "Roads", "lakes">>

\* The layers a dataset may hold at position i: one that cannot be read, or
\* one of up to MaxSmall features whose first is of any kind.
LayersAt(i) ==
    {BrokenLayer(PositionalNames[i], "utm", 0, << >>)}
    \cup UNION {{Layer(PositionalNames[i], "utm", n, pat)
                 : pat \in [1..(IF n = 0 THEN 0 ELSE 1) -> FeatureKinds]}
                : n \in 0..MaxSmall}

LayerDatasets ==
    UNION {{[i \in 1..k |-> [f[i] EXCEPT !.name = PositionalNames[i]]]
            : f \in [1..k -> LayersAt(1)]}
           : k \in 0..MaxLayers}

\* The function each revision calls for operation=list-layers: part_000 and
\* part_001 call their getFileInfo.
ListFns == {"listAllLayers", "listAllLayers2", "getFileInfoBasic"}

DetailedFns == {"getDetailedInfo", "getDetailedInfo2"}

LayerCalls ==
    [fn : ListFns \cup DetailedFns, layers : LayerDatasets,
     done : {FALSE}, out : {NoValue}]

InitLayers ==
    /\ rev = "server"
    /\ clock = 0
    /\ disk = << >>
    /\ req = [r \in 1..MaxRequests |-> NewRequest]
    /\ call \in LayerCalls

RunList ==
    /\ call.fn \in ListFns
    /\ ~call.done
    /\ call' = [call EXCEPT !.done = TRUE,
                   !.out = CASE call.fn = "listAllLayers" ->
                                    listAllLayers(Opened(call.layers))
                             [] call.fn = "listAllLayers2" ->
                                    listAllLayers2(Opened(call.layers))
                             [] OTHER -> getFileInfoBasic(Opened(call.layers))]
    /\ UNCHANGED <<rev, clock, disk, req>>

RunDetailed ==
    /\ call.fn \in DetailedFns
    /\ ~call.done
    /\ call' = [call EXCEPT !.done = TRUE,
                   !.out = IF call.fn = "getDetailedInfo"
                           THEN getDetailedInfo(Opened(call.layers))
                           ELSE getDetailedInfo2(Opened(call.layers), FALSE)]
    /\ UNCHANGED <<rev, clock, disk, req>>

NextLayers == RunList \/ RunDetailed

SpecLayers == InitLayers /\ [][NextLayers]_vars

\* C16: for a dataset of n layers, list-layers answers an array of exactly n
\* entries in index order, entry i carrying index i and the name and feature
\* count of layer i, and file_info.layer_count is the array's length, even
\* when reading one of the layers throws.
C16_OneEntryPerLayer ==
    (call.fn \in ListFns /\ call.done) =>
        /\ ~call.out.threw
        /\ {"layers", "file_info"} \subseteq DOMAIN call.out.value
        /\ LET v == call.out.value
           IN  /\ Len(v.layers) = Len(call.layers)
               /\ v.file_info.layer_count = Len(v.layers)
               /\ \A i \in 1..Len(v.layers) :
                     /\ v.layers[i].index = i - 1
                     /\ call.layers[i].readable =>
                           /\ v.layers[i].name = call.layers[i].name
                           /\ v.layers[i].feature_count
                                 = Len(call.layers[i].features)

\* C17: in detailed-info an exception from the access to one layer or one
\* sample feature never fails the call: the answer has one entry per layer,
\* in index order, the layer's own or a placeholder carrying the error.
C17_LayerErrorsIsolated ==
    (call.fn \in DetailedFns /\ call.done) =>
        /\ ~call.out.threw
        /\ LET v == call.out.value
           IN  /\ Len(v.layers) = Len(call.layers)
               /\ \A i \in 1..Len(v.layers) :
                     IF call.layers[i].readable
                     THEN /\ v.layers[i].name = call.layers[i].name
                          /\ "error" \notin DOMAIN v.layers[i]
                     ELSE "error" \in DOMAIN v.layers[i]

(***************************************************************************)
(* convertFile on its own.  The output driver is the toolkit's: it may     *)
(* take every layer or one layer only (strictDriver).                      *)
(***************************************************************************)
\* The layers a source dataset may hold: one that cannot be read, or one of
\* up to MaxSmall features whose first is plain, without geometry or
\* unreadable.
ConvertLayers ==
    {BrokenLayer("roads", "utm", 0, << >>)}
    \cup UNION {{Layer("roads", "utm", n, pat)
                 : pat \in [1..(IF n = 0 THEN 0 ELSE 1) ->
                               {"plain", "nogeom", "corrupt"}]}
                : n \in 0..MaxSmall}

ConvertDatasets ==
    UNION {{[i \in 1..k |-> [f[i] EXCEPT !.name = PositionalNames[i]]]
            : f \in [1..k -> ConvertLayers]}
           : k \in 0..MaxLayers}

ConvertCalls ==
    [fn : {"convertFile"}, layers : ConvertDatasets,
     format : {"GeoJSON", "geojson", "KML", "PDF"}, strictDriver : BOOLEAN,
     done : {FALSE}, out : {NoValue}]

InitConvert ==
    /\ rev = "server2"
    /\ clock = 0
    /\ disk = << >>
    /\ req = [r \in 1..MaxRequests |-> NewRequest]
    /\ call \in ConvertCalls

\* The scratch file the conversions of this specification read.
ConvertInput == DiskStorageFilename(0, <<"data", ".shp">>)

RunConvert ==
    /\ call.fn = "convertFile"
    /\ ~call.done
    /\ LET out == convertFile(Opened(call.layers), call.format, call.strictDriver)
       IN  /\ call' = [call EXCEPT !.done = TRUE, !.out = out]
           /\ disk' = AfterConvert(disk, ConvertInput, call.format, out)
    /\ UNCHANGED <<rev, clock, req>>

NextConvert == RunConvert

SpecConvert == InitConvert /\ [][NextConvert]_vars

\* convertFile returned the parsed GeoJSON.
ConvertedToGeoJSON ==
    /\ call.fn = "convertFile" /\ call.done /\ ~call.out.threw
    /\ FormatToUpperCase(call.format) = "GEOJSON"

C26_OutputFileRemoved ==
    (call.fn = "convertFile" /\ call.done /\ SupportedFormat(call.format)) =>
        FinalOutputPath(ConvertInput, call.format) \notin DOMAIN disk

(***************************************************************************)
(* Archive probing on its own: formatGDALPath of part_000 followed by the  *)
(* info function on the path it returned, and getDetailedInfo of the       *)
(* second revision of src/server.js, which probes through listZipContents. *)
(***************************************************************************)
ResolveNames == OriginalNames \cup {<<"UMN", ".zip">>, <<"UMN", ".GDB", ".zip">>}

ResolveEntries == Entries \cup {<<"UMN">>, <<"UMN", ".GDB">>}

\* What the uploads hold: an archive with the dataset at one entry, or bytes
\* the toolkit cannot read.
ResolveContents ==
    [archive : {TRUE}, entry : ResolveEntries, readable : {TRUE}, layers : Datasets]
    \cup {NoContent}

NoResolved == [path |-> PlainPath(NoPath), opens |-> 0, probed |-> << >>, handles |-> 0]

ResolveCalls ==
    [fn : {"formatGDALPath", "listZipContents"}, done : {FALSE},
     originalName : ResolveNames, content : ResolveContents,
     resolved : {NoResolved}, out : {NoOutcome}, response : {NoResponse}]

InitResolve ==
    /\ call \in ResolveCalls
    /\ rev = (IF call.fn = "formatGDALPath" THEN "part000" ELSE "server2")
    /\ clock = 0
    /\ disk = << >>
    /\ req = [r \in 1..MaxRequests |-> NewRequest]

\* part_000 lines 217-256 for operation=info: the path is resolved, the
\* function opens it, and its result or its error is the answer.
RunResolve ==
    /\ call.fn = "formatGDALPath"
    /\ ~call.done
    /\ LET filePath == DestFilename(1)
           d == Store(<< >>, filePath, call.content)
           resolved == formatGDALPath(d, filePath, call.originalName)
           out == getFileInfoBasic(ToolkitOpen(d, resolved.path))
       IN  call' = [call EXCEPT !.done = TRUE, !.resolved = resolved, !.out = out,
                       !.response = IF out.threw
                                    THEN ErrorResponse("part000", out.message)
                                    ELSE Success(out.value)]
    /\ UNCHANGED <<rev, clock, disk, req>>

\* src/server.js lines 56-62 and getDetailedInfo of the second revision.
RunListZip ==
    /\ call.fn = "listZipContents"
    /\ ~call.done
    /\ LET filePath == DiskStorageFilename(0, call.originalName)
           d == Store(<< >>, filePath, call.content)
           gdalPath == ServerGdalPath(filePath, call.originalName)
           out == getDetailedInfo2(ToolkitOpen(d, gdalPath), gdalPath.vsizip)
       IN  call' = [call EXCEPT !.done = TRUE,
                       !.resolved = [NoResolved EXCEPT !.path = gdalPath],
                       !.out = out,
                       !.response = IF out.threw
                                    THEN ErrorResponse("server2", out.message)
                                    ELSE Success(out.value)]
    /\ UNCHANGED <<rev, clock, disk, req>>

NextResolve == RunResolve \/ RunListZip

SpecResolve == InitResolve /\ [][NextResolve]_vars

\* formatGDALPath has run on an upload named *.zip.
Probed ==
    /\ call.fn = "formatGDALPath"
    /\ call.done
    /\ endsWith(NameToLowerCase(call.originalName), ".zip")

\* C22: for an upload named *.zip, formatGDALPath opens its candidates in the
\* order archive, archive/basename, archive/basename with the extension in
\* upper case, archive/basename with the extension in lower case; it stops at
\* the first that opens and returns it.
C22_ProbeOrderFirstSuccess ==
    Probed =>
        LET f == DestFilename(1)
            b == basename(call.originalName, ".zip")
            upper == IF Len(b) > 1 THEN [b EXCEPT ![Len(b)] = toUpperCase(@)] ELSE b
            lower == IF Len(b) > 1 THEN [b EXCEPT ![Len(b)] = toLowerCase(@)] ELSE b
            claimed == <<VsiZipPath(f, << >>), VsiZipPath(f, b),
                         VsiZipPath(f, upper), VsiZipPath(f, lower)>>
            probed == call.resolved.probed
            n == Len(probed)
        IN  /\ n \in 1..4
            /\ \A i \in 1..n : probed[i].path = claimed[i]
            /\ \A i \in 1..(n - 1) : ~probed[i].ok
            /\ n < 4 => probed[n].ok
            /\ probed[n].ok => call.resolved.path = probed[n].path

\* C23: when no probe opens, formatGDALPath does not return a path it has
\* seen fail, and the request is answered with the error that no supported
\* dataset was found.
C23_NoFailedPathReturned ==
    (Probed /\ \A i \in 1..Len(call.resolved.probed) : ~call.resolved.probed[i].ok) =>
        /\ \A i \in 1..Len(call.resolved.probed) :
               call.resolved.probed[i].path # call.resolved.path
        /\ call.response.status = 500
        /\ call.response.error = <<"No supported dataset found">>

\* C24: every dataset a probe opened is closed when the probing is over:
\* formatGDALPath returns with none of its probes open, at most one of them
\* having opened, and listZipContents leaves none open either.
C24_ProbesClosed ==
    call.done =>
        /\ call.resolved.handles = 0
        /\ call.out.probeHandles = 0
        /\ Cardinality({i \in 1..Len(call.resolved.probed) :
                            call.resolved.probed[i].ok}) <= 1

C24_Witness ==
    /\ Probed
    /\ Len(call.resolved.probed) = 3
    /\ call.resolved.probed[3].ok
    /\ call.resolved.handles = 0

(***************************************************************************)
(* The listen port.  The value of the environment variable PORT is unset   *)
(* or a text, the sequence of its characters.                              *)
(***************************************************************************)
PortChars == {"0", "5", "6", "-", "x"}

Digits == {"0", "5", "6"}

DigitValue(c) == CASE c = "0" -> 0 [] c = "5" -> 5 [] c = "6" -> 6 [] OTHER -> 0

PortTexts == UNION {[1..k -> PortChars] : k \in 0..MaxPortLen}

PortEnvs == {[set |-> FALSE, text |-> << >>]} \cup [set : {TRUE}, text : PortTexts]

NaN == [nan |-> TRUE, n |-> 0]

Number(n) == [nan |-> FALSE, n |-> n]

\* The value of the digits of text from position i up to the first character
\* that is not a digit, after the value acc, and the position it stopped at.
RECURSIVE ParseDigits(_, _, _)
ParseDigits(text, i, acc) ==
    IF i > Len(text) \/ text[i] \notin Digits THEN [n |-> acc, next |-> i]
    ELSE ParseDigits(text, i + 1, 10 * acc + DigitValue(text[i]))

\* parseInt(text, 10): an optional sign and the longest prefix of digits;
\* whatever follows is ignored, and without a digit the result is NaN.
parseInt(text) ==
    LET negative == Len(text) > 0 /\ text[1] = "-"
        start == IF negative THEN 2 ELSE 1
        parsed == ParseDigits(text, start, 0)
    IN  IF parsed.next = start THEN NaN
        ELSE Number(IF negative THEN 0 - parsed.n ELSE parsed.n)

\* Number(text) of a text that is not empty: the whole text has to be a number.
ToNumber(text) ==
    LET negative == Len(text) > 0 /\ text[1] = "-"
        start == IF negative THEN 2 ELSE 1
        parsed == ParseDigits(text, start, 0)
    IN  IF parsed.next = start \/ parsed.next <= Len(text) THEN NaN
        ELSE Number(IF negative THEN 0 - parsed.n ELSE parsed.n)

DefaultPort(rv) == IF rv \in DiskStorageRevisions THEN 3001 ELSE 8000

\* What the server listens on: a port, a pipe of that name, or nothing since
\* listen threw.
OnPort(n) == [kind |-> "port", n |-> n, text |-> << >>]

\* src/server.js lines 10-17 (and 623-629): the port handed to app.listen.
ServerPort(env) ==
    IF env.set /\ env.text # << >>
    THEN LET envPort == parseInt(env.text)
         IN  IF ~envPort.nan /\ envPort.n >= 0 /\ envPort.n <= 65535
             THEN OnPort(envPort.n) ELSE OnPort(3001)
    ELSE OnPort(3001)

\* part_000 line 8 (and part_001 line 8): process.env.PORT || 8000 handed to
\* app.listen as it is.  listen takes a text that is a number from 0 on as
\* the port, throws when it is above 65535, and takes any other text as the
\* name of a pipe.
PartPort(env) ==
    IF env.set /\ env.text # << >>
    THEN LET asNumber == ToNumber(env.text)
         IN  IF ~asNumber.nan /\ asNumber.n >= 0
             THEN IF asNumber.n <= 65535 THEN OnPort(asNumber.n)
                  ELSE [kind |-> "throws", n |-> 0, text |-> env.text]
             ELSE [kind |-> "pipe", n |-> 0, text |-> env.text]
    ELSE OnPort(8000)

ListenPort(rv, env) ==
    IF rv \in DiskStorageRevisions THEN ServerPort(env) ELSE PartPort(env)

InitPort ==
    /\ rev \in Revisions
    /\ clock = 0
    /\ disk = << >>
    /\ req = [r \in 1..MaxRequests |-> NewRequest]
    /\ call \in [fn : {"listen"}, env : PortEnvs, done : {FALSE},
                 out : {NoValue}]

\* The start of the process, up to app.listen.
Listen ==
    /\ call.fn = "listen"
    /\ ~call.done
    /\ call' = [call EXCEPT !.done = TRUE, !.out = ListenPort(rev, call.env)]
    /\ UNCHANGED <<rev, clock, disk, req>>

NextPort == Listen

SpecPort == InitPort /\ [][NextPort]_vars

\* PORT holds a valid port number: digits only, with a value up to 65535.
IsPortNumber(env) ==
    /\ env.set /\ Len(env.text) > 0
    /\ \A i \in 1..Len(env.text) : env.text[i] \in Digits
    /\ ParseDigits(env.text, 1, 0).n <= 65535

\* C20: whatever PORT holds, the server listens on an integer port in
\* 0..65535, and on the default port whenever PORT is not a valid port number.
C20_ListenPortValid ==
    (call.fn = "listen" /\ call.done) =>
        /\ call.out.kind = "port"
        /\ call.out.n \in 0..65535
        /\ ~IsPortNumber(call.env) => call.out.n = DefaultPort(rev)

====
